---- MODULE Spec2Model ----
(***************************************************************************)
(* Model of the actor decision engine of src/src/preference_list.rs:       *)
(* the goal heaps (BinaryHeap<Rc<GoalWrapper>>), the goal registry and     *)
(* hierarchy, the sorted inventory, the per-tick decision loop and the     *)
(* bargaining state machine.                                               *)
(*                                                                         *)
(* Conventions.                                                            *)
(*  - A HashMap is a function whose DOMAIN is its key set.                 *)
(*  - A Vec and the data vector of a BinaryHeap are sequences; the code's  *)
(*    0-based position p is element p+1 of the sequence.                   *)
(*  - Option::None is None for goals and items, NoIdx for numbers.         *)
(*  - A panic (unwrap on None, index out of bounds, BorrowMutError,        *)
(*    unreachable!) ends the program: it is recorded in `failed`, and no   *)
(*    action is enabled afterwards.                                        *)
(***************************************************************************)
EXTENDS Integers, Sequences, FiniteSets, TLC

VARIABLES
    actors,   \* the Vec<RefCell<Actor>> handed to tick: position -> Actor
    failed,   \* None, or the panic that ended the program
    ev,       \* what the last operation did (history, for stating claims)
    retired,  \* position -> the goals remove_goal took away, each with its
              \* time_required (0 if it did not recur), the ticks of the actor
              \* since then, and whether it has been added again (history)
    bidlog    \* position -> for an actor in Bidding, the length of its
              \* inventory when it entered Bidding and its ticks since (history)

vars == <<actors, failed, ev, retired, bidlog>>

None == "None"
NoIdx == -1

Goal == {"Eat", "Shelter", "Rest", "Leisure"}
Item == {"FoodUnit", "HouseUnit", "LeisureUnit1", "LeisureUnit2"}

(***************************************************************************)
(* HashMap helpers                                                         *)
(***************************************************************************)
MapGet(m, k, dflt) == IF k \in DOMAIN m THEN m[k] ELSE dflt
MapInsert(m, k, v) == [x \in DOMAIN m \cup {k} |-> IF x = k THEN v ELSE m[x]]
MapRemove(m, k) == [x \in DOMAIN m \ {k} |-> m[x]]
EmptyMap == [x \in {} |-> None]

\* all orders in which a HashMap iteration can visit the keys S
RECURSIVE Orders(_)
Orders(S) ==
    IF S = {} THEN {<<>>}
    ELSE UNION {{<<x>> \o o : o \in Orders(S \ {x})} : x \in S}

\* usize::cmp
Cmp(x, y) == IF x < y THEN "Less" ELSE IF x = y THEN "Equal" ELSE "Greater"

(***************************************************************************)
(* GoalData                                                                *)
(***************************************************************************)
Satisfaction(g, ur, u, id) ==
    [goal |-> g, recurring |-> FALSE, time_required |-> 0, time |-> 0,
     units_required |-> ur, units |-> u, id |-> id]

RegularSatisfaction(g, tr, t, ur, u, id) ==
    [goal |-> g, recurring |-> TRUE, time_required |-> tr, time |-> t,
     units_required |-> ur, units |-> u, id |-> id]

(***************************************************************************)
(* GoalWrapper: the goal and the snapshot of the hierarchy its comparator  *)
(* closure captured when the wrapper was built.                            *)
(***************************************************************************)
GoalWrapper(g, gh) == [goal |-> g, gh |-> gh]

\* impl Ord for GoalWrapper: the comparator of the LEFT operand decides
cmp(w, other) ==
    LET xval == MapGet(w.gh, w.goal, NoIdx)
        yval == MapGet(w.gh, other.goal, NoIdx)
    IN IF xval # NoIdx /\ yval # NoIdx THEN Cmp(xval, yval) ELSE "Equal"

(***************************************************************************)
(* std BinaryHeap: push = append + sift_up, peek = data[0], iter = data    *)
(***************************************************************************)
RECURSIVE sift_up(_, _, _)
sift_up(data, pos, elt) ==
    IF pos > 0
    THEN LET parent == (pos - 1) \div 2
         IN IF cmp(elt, data[parent + 1]) \in {"Less", "Equal"}
            THEN [data EXCEPT ![pos + 1] = elt]
            ELSE sift_up([data EXCEPT ![pos + 1] = data[parent + 1]], parent, elt)
    ELSE [data EXCEPT ![pos + 1] = elt]

push(heap, w) == sift_up(Append(heap, w), Len(heap), w)

peek(heap) == IF heap = <<>> THEN None ELSE heap[1].goal

\* the goals held by a heap, and how often a goal occurs in it
HeapGoals(heap) == {heap[k].goal : k \in 1..Len(heap)}
HeapCount(heap, g) == Cardinality({k \in 1..Len(heap) : heap[k].goal = g})

(***************************************************************************)
(* Actor: goal maintenance                                                 *)
(***************************************************************************)
SearchingForGoal == [tag |-> "SearchingForGoal"]
WillingToTrade(idx) == [tag |-> "WillingToTrade", idx |-> idx]
FoundTradePartner(idx) == [tag |-> "FoundTradePartner", idx |-> idx]
Bidding(idx, i1, i2) == [tag |-> "Bidding", idx |-> idx, i1 |-> i1, i2 |-> i2]
BidRecipiant(idx, o1, o2) == [tag |-> "BidRecipiant", idx |-> idx, o1 |-> o1, o2 |-> o2]
NoOffer == <<NoIdx, None>>

RECURSIVE add_goal_entries(_, _, _, _)
add_goal_entries(pl, items, k, w) ==
    IF k > Len(items) THEN pl
    ELSE add_goal_entries(
            MapInsert(pl, items[k], push(MapGet(pl, items[k], <<>>), w)),
            items, k + 1, w)

add_goal(self, goal) ==
    LET ordered_goal == GoalWrapper(goal, self.goal_hierarchy)
        pl == IF goal \in DOMAIN self.satisfactions
              THEN add_goal_entries(self.preference_list,
                                    self.satisfactions[goal], 1, ordered_goal)
              ELSE self.preference_list
    IN [self EXCEPT !.preference_list = pl,
                    !.current_goals = push(self.current_goals, ordered_goal)]

add_new_goal(self, gd, location) ==
    LET s1 == add_goal(self, gd.goal)
    IN [s1 EXCEPT !.goal_hierarchy = MapInsert(s1.goal_hierarchy, gd.goal, location),
                  !.goal_registry = MapInsert(s1.goal_registry, gd.goal, gd)]

\* faulty variant of rebuild, for sensitivity runs: drops only the first entry of the goal, as a single
\* pop of the goal would
RECURSIVE rebuild_first_only(_, _, _, _)
rebuild_first_only(heap, k, actual_goal, new) ==
    IF k > Len(heap) THEN new
    ELSE rebuild_first_only(heap, k + 1, actual_goal,
            IF heap[k].goal # actual_goal
               \/ \E j \in 1..(k - 1) : heap[j].goal = actual_goal
            THEN push(new, heap[k]) ELSE new)

\* the filtered rebuild of one heap
RECURSIVE rebuild(_, _, _, _)
rebuild(heap, k, actual_goal, new) ==
    IF k > Len(heap) THEN new
    ELSE rebuild(heap, k + 1, actual_goal,
                 IF heap[k].goal # actual_goal THEN push(new, heap[k]) ELSE new)

RECURSIVE remove_goal_entries(_, _, _, _)
remove_goal_entries(pl, items, k, actual_goal) ==
    IF k > Len(items) THEN pl
    ELSE remove_goal_entries(
            IF items[k] \in DOMAIN pl
            THEN [pl EXCEPT ![items[k]] = rebuild(pl[items[k]], 1, actual_goal, <<>>)]
            ELSE pl,
            items, k + 1, actual_goal)

remove_goal(self, actual_goal) ==
    LET pl == IF actual_goal \in DOMAIN self.satisfactions
              THEN remove_goal_entries(self.preference_list,
                                       self.satisfactions[actual_goal], 1, actual_goal)
              ELSE self.preference_list
    IN [self EXCEPT !.preference_list = pl,
                    !.current_goals = rebuild(self.current_goals, 1, actual_goal, <<>>),
                    !.goal_registry = MapRemove(self.goal_registry, actual_goal),
                    !.goal_hierarchy = MapRemove(self.goal_hierarchy, actual_goal)]

RECURSIVE new_goals(_, _, _)
new_goals(this, hierarchy, k) ==
    IF k > Len(hierarchy) THEN this
    ELSE new_goals(add_new_goal(this, hierarchy[k], k - 1), hierarchy, k + 1)

new(name, hierarchy, satisfactions) ==
    new_goals([name |-> name,
               current_goals |-> <<>>,
               goal_registry |-> EmptyMap,
               preference_list |-> EmptyMap,
               satisfactions |-> satisfactions,
               goal_hierarchy |-> EmptyMap,
               inventory |-> <<>>,
               state |-> SearchingForGoal],
              hierarchy, 1)

(***************************************************************************)
(* Actor: valuation and inventory                                          *)
(***************************************************************************)
get_best_goal(self, item) ==
    IF item \in DOMAIN self.preference_list
    THEN peek(self.preference_list[item])
    ELSE None

\* faulty variant of compare_item_values, for sensitivity runs: compares the
\* ranks the other way round
compare_item_values_flipped(self, a, b) ==
    LET a_g == get_best_goal(self, a)
        b_g == get_best_goal(self, b)
        a_val == IF a_g = None THEN NoIdx ELSE MapGet(self.goal_hierarchy, a_g, NoIdx)
        b_val == IF b_g = None THEN NoIdx ELSE MapGet(self.goal_hierarchy, b_g, NoIdx)
    IN IF a_val = NoIdx /\ b_val # NoIdx THEN "Less"
       ELSE IF a_val # NoIdx /\ b_val = NoIdx THEN "Greater"
       ELSE IF a_val = NoIdx /\ b_val = NoIdx THEN "Equal"
       ELSE Cmp(a_val, b_val)

\* faulty variant of compare_item_values, for sensitivity runs: an item
\* without value is Equal to an item with value when it comes first
compare_item_values_none_first(self, a, b) ==
    LET a_g == get_best_goal(self, a)
        b_g == get_best_goal(self, b)
        a_val == IF a_g = None THEN NoIdx ELSE MapGet(self.goal_hierarchy, a_g, NoIdx)
        b_val == IF b_g = None THEN NoIdx ELSE MapGet(self.goal_hierarchy, b_g, NoIdx)
    IN IF a_val = NoIdx /\ b_val # NoIdx THEN "Equal"
       ELSE IF a_val # NoIdx /\ b_val = NoIdx THEN "Greater"
       ELSE IF a_val = NoIdx /\ b_val = NoIdx THEN "Equal"
       ELSE Cmp(b_val, a_val)

compare_item_values(self, a, b) ==
    LET a_g == get_best_goal(self, a)
        b_g == get_best_goal(self, b)
        a_val == IF a_g = None THEN NoIdx ELSE MapGet(self.goal_hierarchy, a_g, NoIdx)
        b_val == IF b_g = None THEN NoIdx ELSE MapGet(self.goal_hierarchy, b_g, NoIdx)
    IN IF a_val = NoIdx /\ b_val # NoIdx THEN "Less"
       ELSE IF a_val # NoIdx /\ b_val = NoIdx THEN "Greater"
       ELSE IF a_val = NoIdx /\ b_val = NoIdx THEN "Equal"
       ELSE Cmp(b_val, a_val)

\* slice::binary_search_by(..).unwrap_or_else(|e| e), as std implements it
\* before 1.52 and from 1.82 on: no early return on Equal
RECURSIVE bsearch_loop(_, _, _, _, _)
bsearch_loop(self, inv, item, base, size) ==
    IF size > 1
    THEN LET half == size \div 2
             mid == base + half
             c == compare_item_values(self, inv[mid + 1], item)
         IN bsearch_loop(self, inv, item,
                         IF c = "Greater" THEN base ELSE mid, size - half)
    ELSE LET c == compare_item_values(self, inv[base + 1], item)
         IN IF c = "Equal" THEN base
            ELSE IF c = "Less" THEN base + 1 ELSE base

binary_search_a(self, inv, item) ==
    IF Len(inv) = 0 THEN 0 ELSE bsearch_loop(self, inv, item, 0, Len(inv))

\* the same, as std implements it from 1.52 to 1.81: returns at the first Equal
RECURSIVE binary_search_b(_, _, _, _, _)
binary_search_b(self, inv, item, left, right) ==
    IF left < right
    THEN LET mid == left + ((right - left) \div 2)
             c == compare_item_values(self, inv[mid + 1], item)
         IN IF c = "Less" THEN binary_search_b(self, inv, item, mid + 1, right)
            ELSE IF c = "Greater" THEN binary_search_b(self, inv, item, left, mid)
            ELSE mid
    ELSE left

\* the positions binary_search_by can report, over the std versions
binary_search_by(self, inv, item) ==
    {binary_search_a(self, inv, item),
     binary_search_b(self, inv, item, 0, Len(inv))}

InsertAt(s, loc, x) == SubSeq(s, 1, loc) \o <<x>> \o SubSeq(s, loc + 1, Len(s))
RemoveAt(s, idx) == SubSeq(s, 1, idx) \o SubSeq(s, idx + 2, Len(s))

\* add_item with the position the binary search reported
add_item_at(self, item, loc) ==
    [self EXCEPT !.inventory = InsertAt(self.inventory, loc, item)]

\* every outcome of add_item
add_item(self, item) ==
    {add_item_at(self, item, loc) : loc \in binary_search_by(self, self.inventory, item)}

has_item_of(self, items) ==
    LET inv == self.inventory
        InItems(x) == \E k \in 1..Len(items) : items[k] = x
        F[k \in 0..Len(inv)] ==
            IF k = 0 THEN <<>>
            ELSE IF InItems(inv[k]) THEN Append(F[k - 1], <<k - 1, inv[k]>>)
                 ELSE F[k - 1]
    IN F[Len(inv)]

(***************************************************************************)
(* Actor: using items                                                      *)
(***************************************************************************)
Ok(v) == [panic |-> None, val |-> v]
Panic(what) == [panic |-> what, val |-> None]

Contains(items, x) == \E k \in 1..Len(items) : items[k] = x

RECURSIVE find_item_loop(_, _, _, _, _)
find_item_loop(self, goal, opts, k, possibilities) ==
    IF k > Len(self.inventory) THEN Ok(possibilities)
    ELSE LET item == self.inventory[k]
         IN IF Contains(opts, item)
            THEN IF get_best_goal(self, item) = None
                 THEN Panic("find_item_for_goal: unwrap on None (preference_list)")
                 ELSE IF get_best_goal(self, item) = goal
                      THEN Ok(Append(possibilities, item))
                      ELSE find_item_loop(self, goal, opts, k + 1,
                                          Append(possibilities, item))
            ELSE find_item_loop(self, goal, opts, k + 1, possibilities)

find_item_for_goal(self, goal) ==
    IF goal \notin DOMAIN self.satisfactions
    THEN Panic("find_item_for_goal: unwrap on None (satisfactions)")
    ELSE find_item_loop(self, goal, self.satisfactions[goal], 1, <<>>)

\* Vec::iter().position(|&r| r == item), NoIdx for None
Position(inv, item) ==
    IF \E k \in 1..Len(inv) : inv[k] = item
    THEN (CHOOSE k \in 1..Len(inv) :
             inv[k] = item /\ \A j \in 1..(k - 1) : inv[j] # item) - 1
    ELSE NoIdx

\* faulty variant of use_item_for_goal, for sensitivity runs: retires the goal one unit late
use_item_for_goal_late(self, item, goal) ==
    LET idx == Position(self.inventory, item)
    IN IF idx = NoIdx THEN Ok(self)
       ELSE IF goal \notin DOMAIN self.goal_registry
            THEN Panic("use_item_for_goal: unwrap on None (goal_registry)")
            ELSE LET gd == self.goal_registry[goal]
                     s1 == [self EXCEPT
                              !.inventory = RemoveAt(self.inventory, idx),
                              !.goal_registry[goal].units = gd.units + 1]
                 IN IF gd.units + 1 > gd.units_required
                    THEN Ok(remove_goal(s1, goal))
                    ELSE Ok(s1)

use_item_for_goal(self, item, goal) ==
    LET idx == Position(self.inventory, item)
    IN IF idx = NoIdx THEN Ok(self)
       ELSE IF goal \notin DOMAIN self.goal_registry
            THEN Panic("use_item_for_goal: unwrap on None (goal_registry)")
            ELSE LET gd == self.goal_registry[goal]
                     s1 == [self EXCEPT
                              !.inventory = RemoveAt(self.inventory, idx),
                              !.goal_registry[goal].units = gd.units + 1]
                 IN IF gd.units + 1 >= gd.units_required
                    THEN Ok(remove_goal(s1, goal))
                    ELSE Ok(s1)

(***************************************************************************)
(* Actor: partner search                                                   *)
(***************************************************************************)
Occupied(st) == st.tag \in {"BidRecipiant", "Bidding"}

\* `pos` is the position in other_actors of the actor looked at; the index
\* the code tests against the name and returns is the one enumerate() gives
\* AFTER skip(idx + 1), that is pos - (idx + 1).
RECURSIVE find_next_loop(_, _, _, _, _)
find_next_loop(as, me, goal, idx, pos) ==
    IF pos \notin DOMAIN as THEN Ok(NoIdx)
    ELSE LET enum_idx == pos - (idx + 1)
         IN IF enum_idx = as[me].name
            THEN find_next_loop(as, me, goal, idx, pos + 1)
            ELSE IF pos = me          \* try_borrow fails: self is borrowed mutably
                 THEN find_next_loop(as, me, goal, idx, pos + 1)
                 ELSE IF Occupied(as[pos].state)
                      THEN find_next_loop(as, me, goal, idx, pos + 1)
                      ELSE IF goal \notin DOMAIN as[me].satisfactions
                           THEN Panic("find_next_actor_for_trade: unwrap on None (satisfactions)")
                           ELSE IF Len(has_item_of(as[pos], as[me].satisfactions[goal])) > 0
                                THEN Ok(enum_idx)
                                ELSE find_next_loop(as, me, goal, idx, pos + 1)

find_next_actor_for_trade(as, me, goal, idx) ==
    find_next_loop(as, me, goal, idx, idx + 1)

(***************************************************************************)
(* Actor::tick                                                             *)
(*                                                                         *)
(* An outcome is [actors, failed, ev]: the actors after the tick, the      *)
(* panic if the tick panicked, and the record of what the tick did.        *)
(***************************************************************************)
Event(op, actor) ==
    [op |-> op, actor |-> actor, order |-> <<>>, goal |-> None, branch |-> None,
     partner |-> NoIdx, item1 |-> None, item2 |-> None, count |-> 0,
     exact |-> FALSE, absent |-> FALSE]

Done(as, e) == [actors |-> as, failed |-> None, ev |-> e]
\* a panic ends the program; the state it leaves behind is never observed
Abort(as, e, what) == [actors |-> as, failed |-> what, ev |-> [e EXCEPT !.branch = "panic"]]

\* the recurring goals whose timer expires in this tick
ExpiringGoals(self) ==
    {g \in DOMAIN self.goal_registry :
        /\ self.goal_registry[g].recurring
        /\ self.goal_registry[g].time + 1 >= self.goal_registry[g].time_required}

RECURSIVE reintroduce(_, _, _)
reintroduce(self, reintroduce_goals, k) ==
    IF k > Len(reintroduce_goals) THEN self
    ELSE reintroduce(add_goal(self, reintroduce_goals[k]), reintroduce_goals, k + 1)

\* the first two loops of tick; `order` is the order in which the iteration
\* of goal_registry met the expiring goals
timer_step(self, order) ==
    LET reg == [g \in DOMAIN self.goal_registry |->
                   LET gd == self.goal_registry[g]
                   IN IF gd.recurring
                      THEN [gd EXCEPT !.time = IF gd.time + 1 >= gd.time_required
                                               THEN 0 ELSE gd.time + 1]
                      ELSE gd]
    IN reintroduce([self EXCEPT !.goal_registry = reg], order, 1)

tick_searching(as0, as, i, goal, e) ==
    LET self == as[i]
        p == find_item_for_goal(self, goal)
    IN IF p.panic # None THEN {Abort(as0, e, p.panic)}
       ELSE IF Len(p.val) >= 1
            THEN LET item == p.val[Len(p.val)]
                     u == use_item_for_goal(self, item, goal)
                 IN IF u.panic # None THEN {Abort(as0, e, u.panic)}
                    ELSE {Done([as EXCEPT ![i] = [u.val EXCEPT !.state = SearchingForGoal]],
                               [e EXCEPT !.branch = "use", !.item1 = item,
                                         !.exact = (get_best_goal(self, item) = goal)])}
            ELSE IF Len(self.inventory) > 0
                 THEN {Done([as EXCEPT ![i].state = WillingToTrade(-1)],
                            [e EXCEPT !.branch = "need_item"])}
                 ELSE {Done([as EXCEPT ![i].state = SearchingForGoal],
                            [e EXCEPT !.branch = "empty_inventory"])}

\* faulty variant of tick_willing, for sensitivity runs: keeps the state when no partner is found
tick_willing_stay(as0, as, i, goal, e) ==
    LET self == as[i]
        f == find_next_actor_for_trade(as, i, goal, self.state.idx)
    IN IF f.panic # None THEN {Abort(as0, e, f.panic)}
       ELSE IF f.val # NoIdx
            THEN IF f.val = i
                 THEN {Abort(as0, [e EXCEPT !.partner = f.val],
                             "tick: BorrowMutError (partner is self)")}
                 ELSE {Done([as EXCEPT ![i].state = FoundTradePartner(f.val),
                                       ![f.val].state = BidRecipiant(self.name, None, NoOffer)],
                            [e EXCEPT !.branch = "found_partner", !.partner = f.val])}
            ELSE {Done(as, [e EXCEPT !.branch = "no_partner"])}

tick_willing(as0, as, i, goal, e) ==
    LET self == as[i]
        f == find_next_actor_for_trade(as, i, goal, self.state.idx)
    IN IF f.panic # None THEN {Abort(as0, e, f.panic)}
       ELSE IF f.val # NoIdx
            THEN IF f.val = i
                 THEN {Abort(as0, [e EXCEPT !.partner = f.val],
                             "tick: BorrowMutError (partner is self)")}
                 ELSE {Done([as EXCEPT ![i].state = FoundTradePartner(f.val),
                                       ![f.val].state = BidRecipiant(self.name, None, NoOffer)],
                            [e EXCEPT !.branch = "found_partner", !.partner = f.val])}
            ELSE {Done([as EXCEPT ![i].state = SearchingForGoal],
                       [e EXCEPT !.branch = "no_partner"])}

tick_found(as0, as, i, goal, e0) ==
    LET self == as[i]
        idx == self.state.idx
        e == [e0 EXCEPT !.partner = idx]
    IN IF idx \notin DOMAIN as THEN {Abort(as0, e, "tick: index out of bounds (other_actors)")}
       ELSE IF idx = i THEN {Abort(as0, e, "tick: BorrowMutError (partner is self)")}
       ELSE IF goal \notin DOMAIN self.satisfactions
            THEN {Abort(as0, e, "tick: unwrap on None (satisfactions)")}
       ELSE LET other_actor == as[idx]
                actors_items == has_item_of(other_actor, self.satisfactions[goal])
            IN IF Len(self.inventory) = 0
               THEN {Abort(as0, e, "tick: unwrap on None (inventory.last)")}
               ELSE IF Len(actors_items) = 0
               THEN {Abort(as0, e, "tick: unwrap on None (actors_items.first)")}
               ELSE LET item1 == self.inventory[Len(self.inventory)]
                        item2 == actors_items[1]
                        e1 == [e EXCEPT !.item1 = item1, !.item2 = item2[2]]
                    IN IF compare_item_values(self, item1, item2[2]) # "Less"
                       THEN {Done([as EXCEPT ![idx].state = SearchingForGoal,
                                             ![i].state = WillingToTrade(idx)],
                                  [e1 EXCEPT !.branch = "abandon"])}
                       ELSE IF other_actor.state.tag # "BidRecipiant"
                            THEN {Abort(as0, e1, "tick: unreachable!()")}
                            ELSE {Done([as EXCEPT
                                         ![i].state = Bidding(idx, Len(self.inventory),
                                                              item2[1] - 1),
                                         ![idx].state = BidRecipiant(other_actor.state.idx,
                                                                     item1, item2)],
                                       [e1 EXCEPT !.branch = "start_bidding"])}

\* Vec::iter().position(|(i, _)| *i as i32 == wanted) over actors_items
ItemsPosition(actors_items, wanted) ==
    IF \E k \in 1..Len(actors_items) : actors_items[k][1] = wanted
    THEN (CHOOSE k \in 1..Len(actors_items) : actors_items[k][1] = wanted) - 1
    ELSE NoIdx

\* faulty variant of tick_bidding, for sensitivity runs: only the initiator decides
tick_bidding_initiator_only(as0, as, i, goal, e0) ==
    LET self == as[i]
        idx == self.state.idx
        prev_item1 == self.state.i1
        prev_item2 == self.state.i2
        e == [e0 EXCEPT !.partner = idx]
    IN IF idx \notin DOMAIN as THEN {Abort(as0, e, "tick: index out of bounds (other_actors)")}
       ELSE IF idx = i THEN {Abort(as0, e, "tick: BorrowMutError (partner is self)")}
       ELSE IF goal \notin DOMAIN self.satisfactions
            THEN {Abort(as0, e, "tick: unwrap on None (satisfactions)")}
       ELSE LET other_actor == as[idx]
                actors_items == has_item_of(other_actor, self.satisfactions[goal])
            IN IF Len(actors_items) = 0
               THEN {Abort(as0, e, "tick: unwrap on None (actors_items.last)")}
               ELSE IF actors_items[Len(actors_items)][1] <= prev_item2 \/ prev_item1 <= 0
               THEN {Done([as EXCEPT ![idx].state = SearchingForGoal,
                                     ![i].state = WillingToTrade(idx)],
                          [e EXCEPT !.branch = "exhausted", !.count = prev_item1])}
               ELSE IF prev_item1 - 1 >= Len(self.inventory)
               THEN {Abort(as0, e, "tick: index out of bounds (inventory)")}
               ELSE IF ItemsPosition(actors_items, prev_item2 + 1) = NoIdx
               THEN {Abort(as0, e, "tick: unwrap on None (position)")}
               ELSE
               LET item1 == self.inventory[prev_item1]
                   item2 == actors_items[ItemsPosition(actors_items, prev_item2 + 1) + 1]
                   e1 == [e EXCEPT !.item1 = item1, !.item2 = item2[2]]
                   other == TRUE
                   me == compare_item_values(self, item1, item2[2]) # "Greater"
               IN IF other /\ me
                  THEN {Done([as EXCEPT
                                ![i] = [self2 EXCEPT !.state = SearchingForGoal],
                                ![idx] = [other2 EXCEPT !.state = SearchingForGoal]],
                             [e1 EXCEPT !.branch = "accepted"]) :
                          <<self2, other2>> \in
                             {[s1 EXCEPT !.inventory = RemoveAt(s1.inventory, prev_item1 - 1)]
                                 : s1 \in add_item(self, item2[2])}
                             \X
                             {[o1 EXCEPT !.inventory = RemoveAt(o1.inventory, item2[1])]
                                 : o1 \in add_item(other_actor, item1)}}
                  ELSE IF other_actor.state.tag # "BidRecipiant"
                       THEN {Abort(as0, e1, "tick: unreachable!()")}
                       ELSE {Done([as EXCEPT
                                    ![i].state = Bidding(idx, prev_item1 - 1, item2[1]),
                                    ![idx].state = BidRecipiant(other_actor.state.idx,
                                                                item1, item2)],
                                  [e1 EXCEPT !.branch = "rejected"])}

\* faulty variant of tick_bidding, for sensitivity runs: only the partner decides
tick_bidding_partner_only(as0, as, i, goal, e0) ==
    LET self == as[i]
        idx == self.state.idx
        prev_item1 == self.state.i1
        prev_item2 == self.state.i2
        e == [e0 EXCEPT !.partner = idx]
    IN IF idx \notin DOMAIN as THEN {Abort(as0, e, "tick: index out of bounds (other_actors)")}
       ELSE IF idx = i THEN {Abort(as0, e, "tick: BorrowMutError (partner is self)")}
       ELSE IF goal \notin DOMAIN self.satisfactions
            THEN {Abort(as0, e, "tick: unwrap on None (satisfactions)")}
       ELSE LET other_actor == as[idx]
                actors_items == has_item_of(other_actor, self.satisfactions[goal])
            IN IF Len(actors_items) = 0
               THEN {Abort(as0, e, "tick: unwrap on None (actors_items.last)")}
               ELSE IF actors_items[Len(actors_items)][1] <= prev_item2 \/ prev_item1 <= 0
               THEN {Done([as EXCEPT ![idx].state = SearchingForGoal,
                                     ![i].state = WillingToTrade(idx)],
                          [e EXCEPT !.branch = "exhausted", !.count = prev_item1])}
               ELSE IF prev_item1 - 1 >= Len(self.inventory)
               THEN {Abort(as0, e, "tick: index out of bounds (inventory)")}
               ELSE IF ItemsPosition(actors_items, prev_item2 + 1) = NoIdx
               THEN {Abort(as0, e, "tick: unwrap on None (position)")}
               ELSE
               LET item1 == self.inventory[prev_item1]
                   item2 == actors_items[ItemsPosition(actors_items, prev_item2 + 1) + 1]
                   e1 == [e EXCEPT !.item1 = item1, !.item2 = item2[2]]
                   other == compare_item_values(other_actor, item1, item2[2]) # "Less"
                   me == TRUE
               IN IF other /\ me
                  THEN {Done([as EXCEPT
                                ![i] = [self2 EXCEPT !.state = SearchingForGoal],
                                ![idx] = [other2 EXCEPT !.state = SearchingForGoal]],
                             [e1 EXCEPT !.branch = "accepted"]) :
                          <<self2, other2>> \in
                             {[s1 EXCEPT !.inventory = RemoveAt(s1.inventory, prev_item1 - 1)]
                                 : s1 \in add_item(self, item2[2])}
                             \X
                             {[o1 EXCEPT !.inventory = RemoveAt(o1.inventory, item2[1])]
                                 : o1 \in add_item(other_actor, item1)}}
                  ELSE IF other_actor.state.tag # "BidRecipiant"
                       THEN {Abort(as0, e1, "tick: unreachable!()")}
                       ELSE {Done([as EXCEPT
                                    ![i].state = Bidding(idx, prev_item1 - 1, item2[1]),
                                    ![idx].state = BidRecipiant(other_actor.state.idx,
                                                                item1, item2)],
                                  [e1 EXCEPT !.branch = "rejected"])}

tick_bidding(as0, as, i, goal, e0) ==
    LET self == as[i]
        idx == self.state.idx
        prev_item1 == self.state.i1
        prev_item2 == self.state.i2
        e == [e0 EXCEPT !.partner = idx]
    IN IF idx \notin DOMAIN as THEN {Abort(as0, e, "tick: index out of bounds (other_actors)")}
       ELSE IF idx = i THEN {Abort(as0, e, "tick: BorrowMutError (partner is self)")}
       ELSE IF goal \notin DOMAIN self.satisfactions
            THEN {Abort(as0, e, "tick: unwrap on None (satisfactions)")}
       ELSE LET other_actor == as[idx]
                actors_items == has_item_of(other_actor, self.satisfactions[goal])
            IN IF Len(actors_items) = 0
               THEN {Abort(as0, e, "tick: unwrap on None (actors_items.last)")}
               ELSE IF actors_items[Len(actors_items)][1] <= prev_item2 \/ prev_item1 <= 0
               THEN {Done([as EXCEPT ![idx].state = SearchingForGoal,
                                     ![i].state = WillingToTrade(idx)],
                          [e EXCEPT !.branch = "exhausted", !.count = prev_item1])}
               ELSE IF prev_item1 - 1 >= Len(self.inventory)
               THEN {Abort(as0, e, "tick: index out of bounds (inventory)")}
               ELSE IF ItemsPosition(actors_items, prev_item2 + 1) = NoIdx
               THEN {Abort(as0, e, "tick: unwrap on None (position)")}
               ELSE
               LET item1 == self.inventory[prev_item1]
                   item2 == actors_items[ItemsPosition(actors_items, prev_item2 + 1) + 1]
                   e1 == [e EXCEPT !.item1 = item1, !.item2 = item2[2]]
                   other == compare_item_values(other_actor, item1, item2[2]) # "Less"
                   me == compare_item_values(self, item1, item2[2]) # "Greater"
               IN IF other /\ me
                  THEN {Done([as EXCEPT
                                ![i] = [self2 EXCEPT !.state = SearchingForGoal],
                                ![idx] = [other2 EXCEPT !.state = SearchingForGoal]],
                             [e1 EXCEPT !.branch = "accepted"]) :
                          <<self2, other2>> \in
                             {[s1 EXCEPT !.inventory = RemoveAt(s1.inventory, prev_item1 - 1)]
                                 : s1 \in add_item(self, item2[2])}
                             \X
                             {[o1 EXCEPT !.inventory = RemoveAt(o1.inventory, item2[1])]
                                 : o1 \in add_item(other_actor, item1)}}
                  ELSE IF other_actor.state.tag # "BidRecipiant"
                       THEN {Abort(as0, e1, "tick: unreachable!()")}
                       ELSE {Done([as EXCEPT
                                    ![i].state = Bidding(idx, prev_item1 - 1, item2[1]),
                                    ![idx].state = BidRecipiant(other_actor.state.idx,
                                                                item1, item2)],
                                  [e1 EXCEPT !.branch = "rejected"])}

\* faulty variant of tick, for sensitivity runs: a BidRecipiant walks away
tick_recipient_gives_up(as0, i, order) ==
    LET as == [as0 EXCEPT ![i] = timer_step(as0[i], order)]
        goal == peek(as[i].current_goals)
        e == [Event("tick", i) EXCEPT !.order = order, !.goal = goal]
        tag == as[i].state.tag
    IN IF goal = None THEN {Done(as, [e EXCEPT !.branch = "no_goal"])}
       ELSE IF tag = "SearchingForGoal" THEN tick_searching(as0, as, i, goal, e)
       ELSE IF tag = "WillingToTrade" THEN tick_willing(as0, as, i, goal, e)
       ELSE IF tag = "FoundTradePartner" THEN tick_found(as0, as, i, goal, e)
       ELSE IF tag = "Bidding" THEN tick_bidding(as0, as, i, goal, e)
       ELSE {Done([as EXCEPT ![i].state = SearchingForGoal],
                  [e EXCEPT !.branch = "waiting"])}

\* every outcome of actors[i].tick(actors) when the registry iteration meets
\* the expiring goals in `order`
tick(as0, i, order) ==
    LET as == [as0 EXCEPT ![i] = timer_step(as0[i], order)]
        goal == peek(as[i].current_goals)
        e == [Event("tick", i) EXCEPT !.order = order, !.goal = goal]
        tag == as[i].state.tag
    IN IF goal = None THEN {Done(as, [e EXCEPT !.branch = "no_goal"])}
       ELSE IF tag = "SearchingForGoal" THEN tick_searching(as0, as, i, goal, e)
       ELSE IF tag = "WillingToTrade" THEN tick_willing(as0, as, i, goal, e)
       ELSE IF tag = "FoundTradePartner" THEN tick_found(as0, as, i, goal, e)
       ELSE IF tag = "Bidding" THEN tick_bidding(as0, as, i, goal, e)
       ELSE {Done(as, [e EXCEPT !.branch = "waiting"])}

(***************************************************************************)
(* Bounds                                                                  *)
(***************************************************************************)
MaxInv == 3      \* give-item is offered while an inventory is shorter
MaxItems == 5    \* and while the actors hold fewer items altogether
MaxHeap == 4     \* a tick is offered while current_goals stays this short
MaxApiHeap == 4  \* add_goal is offered while current_goals is shorter
MaxRank == 2     \* add_new_goal is offered locations 0..MaxRank
BarterPeriod == 4  \* time_required of the recurring goal of the Barter world
MaxUseHeap == 6  \* the heap bound of the ticks of SpecUse

(***************************************************************************)
(* Configurations                                                          *)
(***************************************************************************)
\* satisfactions as main seeds them: Rest has no entry
MainSatisfactions(leisure_unit) ==
    [g \in {"Eat", "Shelter", "Leisure"} |->
        IF g = "Eat" THEN <<"FoodUnit">>
        ELSE IF g = "Shelter" THEN <<"HouseUnit">>
        ELSE <<"FoodUnit", "HouseUnit", leisure_unit>>]

\* a goal of low rank that is satisfied by the item of the goal of top rank
BarterSatisfactions ==
    [g \in {"Eat", "Shelter", "Leisure"} |->
        IF g = "Eat" THEN <<"FoodUnit">> ELSE <<"HouseUnit">>]

\* Scenario A/B of the description: each goal has its own item
PlainSatisfactions ==
    [g \in {"Eat", "Shelter", "Leisure"} |->
        IF g = "Eat" THEN <<"FoodUnit">>
        ELSE IF g = "Shelter" THEN <<"HouseUnit">>
        ELSE <<"LeisureUnit1">>]

(***************************************************************************)
(* Operations of the public interface, called in any order on one actor    *)
(***************************************************************************)
\* two goals that share an item (FoodUnit); remove_goal is offered all of Goal
NoBid == [n |-> 0, ticks |-> 0]

ApiGoalData ==
    {RegularSatisfaction("Eat", 2, 0, 2, 0, 0),
     Satisfaction("Leisure", 4, 1, 3)}

InitApi ==
    /\ actors = [p \in {0} |-> new(0, <<>>, MainSatisfactions("LeisureUnit1"))]
    /\ failed = None
    /\ ev = Event("new", 0)
    /\ retired = [p \in DOMAIN actors |-> EmptyMap]
    /\ bidlog = [p \in DOMAIN actors |-> NoBid]

\* the goal is in no map and in no heap of the actor
GoalAbsent(self, g) ==
    /\ g \notin DOMAIN self.goal_hierarchy
    /\ g \notin DOMAIN self.goal_registry
    /\ g \notin HeapGoals(self.current_goals)
    /\ \A item \in DOMAIN self.preference_list : g \notin HeapGoals(self.preference_list[item])

\* history: goal g of the actor at position i was removed / was added
NoteRemoved(i, g) ==
    LET reg == actors[i].goal_registry
        tr == IF g \in DOMAIN reg /\ reg[g].recurring THEN reg[g].time_required ELSE 0
    IN IF GoalAbsent(actors[i], g) THEN retired
       ELSE [retired EXCEPT ![i] = MapInsert(@, g, [time_required |-> tr, ticks |-> 0,
                                                    added |-> FALSE])]
NoteAdded(i, g) ==
    IF g \in DOMAIN retired[i] THEN [retired EXCEPT ![i][g].added = TRUE] ELSE retired

\* the documentation asks for a goal that is in the registry and the hierarchy
AddGoal(i, goal) ==
    /\ failed = None
    /\ goal \in DOMAIN actors[i].goal_registry
    /\ goal \in DOMAIN actors[i].goal_hierarchy
    /\ Len(actors[i].current_goals) < MaxApiHeap
    /\ actors' = [actors EXCEPT ![i] = add_goal(@, goal)]
    /\ ev' = [Event("add_goal", i) EXCEPT !.goal = goal]
    /\ retired' = NoteAdded(i, goal)
    /\ UNCHANGED <<failed, bidlog>>

\* the documentation asks for a goal that is not in the registry yet; the
\* locations offered are the ranks not in use, as Actor::new hands them out
AddNewGoal(i, gd, location) ==
    /\ failed = None
    /\ Len(actors[i].current_goals) < MaxApiHeap
    /\ gd.goal \notin DOMAIN actors[i].goal_registry
    /\ \A g \in DOMAIN actors[i].goal_hierarchy : actors[i].goal_hierarchy[g] # location
    /\ actors' = [actors EXCEPT ![i] = add_new_goal(@, gd, location)]
    /\ ev' = [Event("add_new_goal", i) EXCEPT !.goal = gd.goal]
    /\ retired' = NoteAdded(i, gd.goal)
    /\ UNCHANGED <<failed, bidlog>>

RemoveGoal(i, goal) ==
    /\ failed = None
    /\ actors' = [actors EXCEPT ![i] = remove_goal(@, goal)]
    /\ ev' = [Event("remove_goal", i) EXCEPT
                 !.goal = goal,
                 !.count = HeapCount(actors[i].current_goals, goal),
                 !.absent = GoalAbsent(actors[i], goal)]
    /\ retired' = NoteRemoved(i, goal)
    /\ UNCHANGED <<failed, bidlog>>

NextApi ==
    \/ \E i \in DOMAIN actors, goal \in Goal : AddGoal(i, goal)
    \/ \E i \in DOMAIN actors, gd \in ApiGoalData, location \in 0..MaxRank :
          AddNewGoal(i, gd, location)
    \/ \E i \in DOMAIN actors, goal \in Goal : RemoveGoal(i, goal)

SpecApi == InitApi /\ [][NextApi]_vars

(***************************************************************************)
(* The driver: give-item and tick                                          *)
(***************************************************************************)
GiftItems == {"FoodUnit", "HouseUnit"}

\* the vector of actors, positions 0..n-1
Vector(s) == [p \in 0..(Len(s) - 1) |-> s[p + 1]]

\* one actor: a recurring goal that retires after one unit, and a second goal
SoloEatShelter ==
    Vector(<<new(0, <<RegularSatisfaction("Eat", 2, 0, 1, 0, 0),
                      Satisfaction("Shelter", 2, 0, 1)>>, PlainSatisfactions)>>)

\* one actor: items that serve two goals; the lower-ranked goal recurs
SoloEatLeisure ==
    Vector(<<new(0, <<Satisfaction("Eat", 2, 0, 0),
                      RegularSatisfaction("Leisure", 2, 0, 2, 0, 3)>>,
                 MainSatisfactions("LeisureUnit1"))>>)

\* two actors that each want what the other can hold; `names` gives the
\* number in the name of the actor at each position, which the HashMap of the
\* driver does not tie to the position
Pair(names) ==
    Vector(<<new(names[1], <<Satisfaction("Shelter", 1, 0, 1)>>, PlainSatisfactions),
             new(names[2], <<Satisfaction("Eat", 1, 0, 0)>>, PlainSatisfactions)>>)

\* three actors that all want shelter
Trio ==
    Vector(<<new(0, <<Satisfaction("Shelter", 1, 0, 1)>>, PlainSatisfactions),
             new(1, <<Satisfaction("Shelter", 1, 0, 1)>>, PlainSatisfactions),
             new(2, <<Satisfaction("Shelter", 1, 0, 1)>>, PlainSatisfactions)>>)

\* two actors; the first ranks Shelter, Eat and a recurring Leisure that the
\* item of Shelter satisfies too, the second wants to eat
Barter ==
    Vector(<<new(0, <<Satisfaction("Shelter", 1, 0, 1), Satisfaction("Eat", 1, 0, 0),
                      RegularSatisfaction("Leisure", BarterPeriod, 0, 1, 0, 3)>>,
                 BarterSatisfactions),
             new(1, <<Satisfaction("Eat", 1, 0, 0)>>, PlainSatisfactions)>>)

Worlds == {SoloEatShelter, SoloEatLeisure, Pair(<<0, 1>>), Pair(<<1, 0>>), Trio, Barter}

Init ==
    /\ actors \in Worlds
    /\ failed = None
    /\ ev = Event("new", 0)
    /\ retired = [p \in DOMAIN actors |-> EmptyMap]
    /\ bidlog = [p \in DOMAIN actors |-> NoBid]

RECURSIVE TotalItems(_, _)
TotalItems(as, P) ==
    IF P = {} THEN 0
    ELSE LET p == CHOOSE q \in P : TRUE
         IN Len(as[p].inventory) + TotalItems(as, P \ {p})

GiveItem(i, item) ==
    /\ failed = None
    /\ Len(actors[i].inventory) < MaxInv
    /\ TotalItems(actors, DOMAIN actors) < MaxItems
    /\ \E a \in add_item(actors[i], item) : actors' = [actors EXCEPT ![i] = a]
    /\ ev' = [Event("add_item", i) EXCEPT !.item1 = item]
    /\ UNCHANGED <<failed, retired, bidlog>>

\* history: one tick of an actor; the goals it retires enter `old`, the
\* others count the tick (up to one more than their time_required) and note
\* whether the timers added them again
NoteTick(self, self2, order, old) ==
    LET reg == self.goal_registry
        gone == DOMAIN reg \ DOMAIN self2.goal_registry
    IN [g \in DOMAIN old \cup gone |->
          IF g \in gone
          THEN [time_required |-> IF reg[g].recurring THEN reg[g].time_required ELSE 0,
                ticks |-> 0, added |-> FALSE]
          ELSE [old[g] EXCEPT
                  !.ticks = IF @ <= old[g].time_required /\ old[g].time_required > 0
                            THEN @ + 1 ELSE @,
                  !.added = @ \/ Contains(order, g)]]

\* history: the tick of the actor at position i took `as` to `as2`
NoteBids(i, as, as2, old) ==
    [p \in DOMAIN as |->
        IF as2[p].state.tag # "Bidding" THEN NoBid
        ELSE IF p # i THEN old[p]
        ELSE IF as[p].state.tag = "Bidding" THEN [old[p] EXCEPT !.ticks = @ + 1]
        ELSE [n |-> Len(as2[p].inventory), ticks |-> 0]]

\* a tick, offered while current_goals stays within `bound`
TickWithin(i, bound) ==
    /\ failed = None
    /\ Len(actors[i].current_goals) + Cardinality(ExpiringGoals(actors[i])) <= bound
    /\ \E order \in Orders(ExpiringGoals(actors[i])) :
         \E r \in tick(actors, i, order) :
            /\ actors' = r.actors
            /\ failed' = r.failed
            /\ ev' = r.ev
            /\ retired' = IF r.failed = None
                          THEN [retired EXCEPT ![i] = NoteTick(actors[i], r.actors[i], order, @)]
                          ELSE retired
            /\ bidlog' = IF r.failed = None
                         THEN NoteBids(i, actors, r.actors, bidlog)
                         ELSE bidlog

Tick(i) == TickWithin(i, MaxHeap)

Next ==
    \/ \E i \in DOMAIN actors, item \in GiftItems : GiveItem(i, item)
    \/ \E i \in DOMAIN actors : Tick(i)

Spec == Init /\ [][Next]_vars

(***************************************************************************)
(* One actor whose timers run long enough for an item to serve the         *)
(* selected goal without that goal being the item's best goal              *)
(***************************************************************************)
\* the hierarchy of main with Leisure first: Leisure is selected while the
\* re-added Eat and Shelter are the best goals of FoodUnit and HouseUnit
SoloLeisureFirst ==
    Vector(<<new(0, <<Satisfaction("Leisure", 2, 0, 3),
                      RegularSatisfaction("Eat", 3, 0, 2, 0, 0),
                      RegularSatisfaction("Shelter", 4, 0, 2, 0, 1),
                      Satisfaction("Rest", 1, 0, 2)>>,
                 MainSatisfactions("LeisureUnit1"))>>)

InitUse ==
    /\ actors = SoloLeisureFirst
    /\ failed = None
    /\ ev = Event("new", 0)
    /\ retired = [p \in DOMAIN actors |-> EmptyMap]
    /\ bidlog = [p \in DOMAIN actors |-> NoBid]

TickUse(i) == TickWithin(i, MaxUseHeap)

NextUse ==
    \/ \E i \in DOMAIN actors, item \in GiftItems : GiveItem(i, item)
    \/ \E i \in DOMAIN actors : TickUse(i)

SpecUse == InitUse /\ [][NextUse]_vars

(***************************************************************************)
(* The driver ticking every actor in every round: the worlds without       *)
(* timers, in which a tick is always possible, with every actor ticked     *)
(* again and again                                                         *)
(***************************************************************************)
\* main puts the starting items into the inventory as they come, unsorted
with_inventory(self, items) == [self EXCEPT !.inventory = self.inventory \o items]

\* the starting inventories main chooses from
MainInventories ==
    {<<"FoodUnit", "FoodUnit", "FoodUnit">>,
     <<"HouseUnit", "FoodUnit">>,
     <<"LeisureUnit1", "LeisureUnit2">>,
     <<"FoodUnit", "FoodUnit", "FoodUnit", "LeisureUnit2">>}

\* three actors that want to eat twice and then want shelter, as the first
\* two goals of main have it (without the timer), each with one of the
\* starting inventories
Market(invs) ==
    [p \in 0..2 |->
        with_inventory(new(p, <<Satisfaction("Eat", 2, 0, 0),
                                Satisfaction("Shelter", 1, 0, 1)>>,
                           PlainSatisfactions),
                       invs[p])]

InitLive ==
    /\ actors \in {Market(invs) : invs \in [0..2 -> MainInventories]}
    /\ failed = None
    /\ ev = Event("new", 0)
    /\ retired = [p \in DOMAIN actors |-> EmptyMap]
    /\ bidlog = [p \in DOMAIN actors |-> NoBid]

\* the tick command of main ticks every actor in the order of the vector,
\* round after round: the position whose turn it is
Turn == IF ev.op = "tick" THEN (ev.actor + 1) % Cardinality(DOMAIN actors) ELSE 0

NextLive == \E i \in DOMAIN actors : i = Turn /\ Tick(i)

SpecLive == InitLive /\ [][NextLive]_vars /\ WF_vars(NextLive)

(***************************************************************************)
(* Reference notions the claims are stated with                            *)
(***************************************************************************)
\* the active goals: those ranked in the hierarchy and kept in the registry
ActiveGoals(self) == DOMAIN self.goal_hierarchy \cap DOMAIN self.goal_registry

\* the active goals whose satisfaction entry contains the item
GoalsFor(self, item) ==
    {g \in ActiveGoals(self) :
        g \in DOMAIN self.satisfactions /\ Contains(self.satisfactions[g], item)}

\* the goals of lowest rank among S
MinRankGoals(self, S) ==
    {g \in S : \A h \in S : self.goal_hierarchy[g] <= self.goal_hierarchy[h]}

(***************************************************************************)
(* C1: for every item I, get_best_goal(I) is the goal of minimum rank      *)
(* among the active goals whose satisfaction entry contains I, and is      *)
(* absent when there is no such goal.                                      *)
(***************************************************************************)
C1_BestGoalIsMinRank ==
    \A i \in DOMAIN actors : \A item \in Item :
        LET S == GoalsFor(actors[i], item)
        IN IF S = {} THEN get_best_goal(actors[i], item) = None
           ELSE get_best_goal(actors[i], item) \in MinRankGoals(actors[i], S)

\* how often an item occurs in an inventory
Count(inv, x) == Cardinality({k \in 1..Len(inv) : inv[k] = x})

\* inv2 is inv with one copy of `out` removed and one copy of `in` added
Exchanged(inv, inv2, out, in) ==
    \A x \in Item :
        Count(inv2, x) = Count(inv, x) - (IF x = out THEN 1 ELSE 0)
                                       + (IF x = in THEN 1 ELSE 0)

\* the step is a tick of the actor at position i that did not panic
TickOf(i) == ev'.op = "tick" /\ ev'.actor = i /\ failed' = None

(***************************************************************************)
(* C2: in every tick, the goal the actor selects after the timer step is   *)
(* the active goal of minimum rank in its goal hierarchy (the timer step   *)
(* changes neither the hierarchy nor the registry keys).                   *)
(***************************************************************************)
C2_SelectedGoalIsMinRank ==
    [][\A i \in DOMAIN actors :
         (ev'.op = "tick" /\ ev'.actor = i /\ ActiveGoals(actors[i]) # {})
            => ev'.goal \in MinRankGoals(actors[i], ActiveGoals(actors[i]))]_vars

(***************************************************************************)
(* C3: a tick of actor C never selects as partner, and never changes the   *)
(* bargaining state or inventory of, an actor that at the start of the     *)
(* tick is Bidding or BidRecipiant in a negotiation with somebody else.    *)
(***************************************************************************)
\* the actor at position p negotiates, and not with the actor at position c
EngagedElsewhere(as, p, c) ==
    \/ as[p].state.tag = "Bidding" /\ as[p].state.idx # c
    \/ as[p].state.tag = "BidRecipiant" /\ as[p].state.idx # as[c].name

C3_MutualExclusion ==
    [][\A c \in DOMAIN actors : \A p \in DOMAIN actors \ {c} :
         (ev'.op = "tick" /\ ev'.actor = c /\ EngagedElsewhere(actors, p, c))
            => /\ ev'.partner # p
               /\ failed' = None =>
                    /\ actors'[p].state = actors[p].state
                    /\ actors'[p].inventory = actors[p].inventory]_vars

(***************************************************************************)
(* C4: when a bid is accepted, the initiator's inventory is its previous   *)
(* inventory with one copy of the offered item removed and one copy of     *)
(* the received item added, the partner's the other way round, and both    *)
(* actors are SearchingForGoal.                                            *)
(***************************************************************************)
C4_SwapIsExact ==
    [][\A i \in DOMAIN actors :
         (TickOf(i) /\ ev'.branch = "accepted")
            => LET p == ev'.partner
               IN /\ Exchanged(actors[i].inventory, actors'[i].inventory,
                               ev'.item1, ev'.item2)
                  /\ Exchanged(actors[p].inventory, actors'[p].inventory,
                               ev'.item2, ev'.item1)
                  /\ actors'[i].state = SearchingForGoal
                  /\ actors'[p].state = SearchingForGoal]_vars

(***************************************************************************)
(* C5: scenario B.  Two actors a and b; the goal a selects is satisfied by *)
(* the single item b holds and not by its own, and the other way round;    *)
(* each strictly values the other's item above its own.  Then the ticks of *)
(* a take it from SearchingForGoal to WillingToTrade, on to                *)
(* FoundTradePartner(b) when b is free, on to Bidding, and its first tick  *)
(* in Bidding completes the swap.                                          *)
(***************************************************************************)
ScenarioB(as, a, b) ==
    /\ DOMAIN as = {a, b} /\ a # b
    /\ Len(as[a].inventory) = 1 /\ Len(as[b].inventory) = 1
    /\ LET x == as[a].inventory[1]
           y == as[b].inventory[1]
           ga == peek(as[a].current_goals)
           gb == peek(as[b].current_goals)
       IN /\ ga # None /\ ga \in DOMAIN as[a].satisfactions
          /\ gb # None /\ gb \in DOMAIN as[b].satisfactions
          /\ Contains(as[a].satisfactions[ga], y) /\ ~Contains(as[a].satisfactions[ga], x)
          /\ Contains(as[b].satisfactions[gb], x) /\ ~Contains(as[b].satisfactions[gb], y)
          /\ compare_item_values(as[a], x, y) = "Less"
          /\ compare_item_values(as[b], y, x) = "Less"

C5_ScenarioB ==
    [][\A a \in DOMAIN actors : \A b \in DOMAIN actors :
         LET as == [actors EXCEPT ![a] = timer_step(actors[a], ev'.order)]
             st == actors[a].state
         IN (ev'.op = "tick" /\ ev'.actor = a /\ ScenarioB(as, a, b))
            => /\ failed' = None
               /\ st.tag = "SearchingForGoal" => actors'[a].state = WillingToTrade(-1)
               /\ (st.tag = "WillingToTrade" /\ ~Occupied(actors[b].state))
                     => /\ actors'[a].state = FoundTradePartner(b)
                        /\ actors'[b].state.tag = "BidRecipiant"
               /\ (st.tag = "FoundTradePartner" /\ st.idx = b)
                     => actors'[a].state = Bidding(b, 1, -1)
               /\ (st = Bidding(b, 1, -1))
                     => /\ actors'[a].inventory = actors[b].inventory
                        /\ actors'[b].inventory = actors[a].inventory
                        /\ actors'[a].state = SearchingForGoal
                        /\ actors'[b].state = SearchingForGoal]_vars

(***************************************************************************)
(* C6: a recurring goal G with time_required = T that a tick retired is    *)
(* back after T further ticks of the actor: on the T-th tick its timer is  *)
(* 0 and G is in the hierarchy, in current_goals and in the heap of every  *)
(* item that satisfies it.                                                 *)
(***************************************************************************)
GoalPresent(self, g) ==
    /\ g \in DOMAIN self.goal_hierarchy
    /\ g \in DOMAIN self.goal_registry
    /\ g \in HeapGoals(self.current_goals)
    /\ g \in DOMAIN self.satisfactions =>
          \A k \in 1..Len(self.satisfactions[g]) :
             g \in HeapGoals(MapGet(self.preference_list, self.satisfactions[g][k], <<>>))

C6_Recurrence ==
    \A i \in DOMAIN actors : \A g \in DOMAIN retired[i] :
        (retired[i][g].time_required > 0 /\ retired[i][g].ticks = retired[i][g].time_required)
           => /\ GoalPresent(actors[i], g)
              /\ actors[i].goal_registry[g].time = 0

(***************************************************************************)
(* C7: scenario A.  When an actor in SearchingForGoal ticks and holds an   *)
(* item whose best goal is the selected goal G, the tick removes exactly   *)
(* one such item and raises the units of G by 1; if the units reach        *)
(* units_required, G leaves the hierarchy, the registry, current_goals and *)
(* every heap; the actor stays SearchingForGoal.                           *)
(***************************************************************************)
GoalGone(self, g) ==
    /\ g \notin DOMAIN self.goal_hierarchy
    /\ g \notin DOMAIN self.goal_registry
    /\ g \notin HeapGoals(self.current_goals)
    /\ \A item \in DOMAIN self.preference_list : g \notin HeapGoals(self.preference_list[item])

C7_UseItem ==
    [][\A i \in DOMAIN actors :
         LET mid == timer_step(actors[i], ev'.order)
             G == ev'.goal
         IN (/\ ev'.op = "tick" /\ ev'.actor = i
             /\ actors[i].state.tag = "SearchingForGoal"
             /\ G # None
             /\ \E k \in 1..Len(mid.inventory) : get_best_goal(mid, mid.inventory[k]) = G)
            => /\ failed' = None
               /\ \E x \in Item :
                     /\ get_best_goal(mid, x) = G
                     /\ \A y \in Item :
                           Count(actors'[i].inventory, y)
                              = Count(mid.inventory, y) - (IF y = x THEN 1 ELSE 0)
               /\ G \in DOMAIN mid.goal_registry
               /\ IF mid.goal_registry[G].units + 1 >= mid.goal_registry[G].units_required
                  THEN GoalGone(actors'[i], G)
                  ELSE /\ G \in DOMAIN actors'[i].goal_hierarchy
                       /\ G \in DOMAIN actors'[i].goal_registry
                       /\ actors'[i].goal_registry[G].units = mid.goal_registry[G].units + 1
               /\ actors'[i].state = SearchingForGoal]_vars

\* a tick used an item whose best goal was the selected goal, and retired it
C7_Witness ==
    /\ ev.op = "tick" /\ ev.branch = "use" /\ ev.exact
    /\ ev.goal \in DOMAIN retired[ev.actor]
    /\ GoalGone(actors[ev.actor], ev.goal)

(***************************************************************************)
(* C8: scenario D.  As claimed: if an actor in WillingToTrade ticks while  *)
(* every other actor is Bidding or BidRecipiant, it is still               *)
(* WillingToTrade afterwards and no other actor has changed.               *)
(***************************************************************************)
AllOthersBusy(as, i) ==
    /\ DOMAIN as # {i}
    /\ \A p \in DOMAIN as \ {i} : as[p].state.tag \in {"Bidding", "BidRecipiant"}

OthersUntouched(i) ==
    \A p \in DOMAIN actors \ {i} :
        /\ actors'[p].state = actors[p].state
        /\ actors'[p].inventory = actors[p].inventory

C8_StaysWillingToTrade ==
    [][\A i \in DOMAIN actors :
         (/\ ev'.op = "tick" /\ ev'.actor = i
          /\ actors[i].state.tag = "WillingToTrade"
          /\ AllOthersBusy(actors, i))
            => /\ failed' = None
               /\ actors'[i].state.tag = "WillingToTrade"
               /\ OthersUntouched(i)]_vars

(***************************************************************************)
(* C8, amended: if an actor in WillingToTrade ticks while every other      *)
(* actor is Bidding or BidRecipiant, the tick does not fail, the actor is  *)
(* SearchingForGoal afterwards and no other actor's bargaining state or    *)
(* inventory has changed.                                                  *)
(***************************************************************************)
C8_NoPartnerBackToSearching ==
    [][\A i \in DOMAIN actors :
         (/\ ev'.op = "tick" /\ ev'.actor = i
          /\ actors[i].state.tag = "WillingToTrade"
          /\ AllOthersBusy(actors, i))
            => /\ failed' = None
               /\ actors'[i].state = SearchingForGoal
               /\ OthersUntouched(i)]_vars

\* a WillingToTrade actor has just ticked among busy actors only
C8_Witness ==
    /\ ev.op = "tick" /\ ev.branch = "no_partner"
    /\ AllOthersBusy(actors, ev.actor)

(***************************************************************************)
(* C9: right after every add_item, and after every executed trade, the     *)
(* inventory of each actor involved is sorted non-decreasingly under that  *)
(* actor's current compare_item_values.                                    *)
(***************************************************************************)
Sorted(self) ==
    \A k \in 1..Len(self.inventory) : \A l \in (k + 1)..Len(self.inventory) :
        compare_item_values(self, self.inventory[k], self.inventory[l]) # "Greater"

C9_InventorySorted ==
    /\ ev.op = "add_item" => Sorted(actors[ev.actor])
    /\ (ev.op = "tick" /\ ev.branch = "accepted")
          => Sorted(actors[ev.actor]) /\ Sorted(actors[ev.partner])

(***************************************************************************)
(* C10: after remove_goal(G), and until G is added again, get_best_goal(I) *)
(* is not G for any item I and G is not in current_goals, also when G had  *)
(* been added to the heaps more than once.                                 *)
(***************************************************************************)
C10_RemovedGoalNotBest ==
    \A i \in DOMAIN actors : \A g \in DOMAIN retired[i] :
        ~retired[i][g].added
           => /\ \A item \in Item : get_best_goal(actors[i], item) # g
              /\ g \notin HeapGoals(actors[i].current_goals)

\* remove_goal has just removed a goal that was in current_goals twice or
\* more, and left another goal behind
C10_Witness ==
    /\ ev.op = "remove_goal" /\ ev.count >= 2
    /\ actors[ev.actor].current_goals # <<>>
    /\ ev.goal \in DOMAIN retired[ev.actor]

(***************************************************************************)
(* C11: remove_goal(G) on a goal G that is in neither the hierarchy, the   *)
(* registry nor any heap does not fail and leaves the hierarchy, the       *)
(* registry, the set of goals of every heap, get_best_goal(I) for every    *)
(* item I, the goal at the top of current_goals, the inventory and the     *)
(* bargaining state as they were.                                          *)
(***************************************************************************)
SameObservable(self, self2) ==
    /\ self2.goal_hierarchy = self.goal_hierarchy
    /\ self2.goal_registry = self.goal_registry
    /\ DOMAIN self2.preference_list = DOMAIN self.preference_list
    /\ \A item \in DOMAIN self.preference_list :
          HeapGoals(self2.preference_list[item]) = HeapGoals(self.preference_list[item])
    /\ HeapGoals(self2.current_goals) = HeapGoals(self.current_goals)
    /\ \A item \in Item : get_best_goal(self2, item) = get_best_goal(self, item)
    /\ peek(self2.current_goals) = peek(self.current_goals)
    /\ self2.inventory = self.inventory
    /\ self2.state = self.state

C11_RemoveAbsentGoalIsNoOp ==
    [][\A i \in DOMAIN actors :
         (ev'.op = "remove_goal" /\ ev'.actor = i /\ GoalAbsent(actors[i], ev'.goal))
            => /\ failed' = None
               /\ SameObservable(actors[i], actors'[i])]_vars

\* remove_goal was called for an absent goal that has a satisfaction entry,
\* on an actor whose heaps hold two different goals
C11_Witness ==
    /\ ev.op = "remove_goal" /\ ev.absent
    /\ ev.goal \in DOMAIN actors[ev.actor].satisfactions
    /\ Cardinality(HeapGoals(actors[ev.actor].current_goals)) >= 2
    /\ \E k \in 1..Len(actors[ev.actor].satisfactions[ev.goal]) :
          MapGet(actors[ev.actor].preference_list,
                 actors[ev.actor].satisfactions[ev.goal][k], <<>>) # <<>>

(***************************************************************************)
(* C12: compare_item_values(a, b) equals the reference comparison: when    *)
(* both items have a best goal, Greater if the best goal of a has the      *)
(* lower rank, Equal if the ranks are equal, Less otherwise; an item with  *)
(* a best goal is Greater than one with none; two items with none are      *)
(* Equal.  Every best goal has a rank, so the comparison never fails.      *)
(***************************************************************************)
ReferenceCompare(self, a, b) ==
    LET ga == get_best_goal(self, a)
        gb == get_best_goal(self, b)
        ra == MapGet(self.goal_hierarchy, ga, NoIdx)
        rb == MapGet(self.goal_hierarchy, gb, NoIdx)
    IN IF ga # None /\ gb # None
       THEN IF ra < rb THEN "Greater" ELSE IF ra = rb THEN "Equal" ELSE "Less"
       ELSE IF ga # None THEN "Greater"
       ELSE IF gb # None THEN "Less"
       ELSE "Equal"

Reverse(o) == IF o = "Less" THEN "Greater" ELSE IF o = "Greater" THEN "Less" ELSE o

C13_CompareAntisymmetric ==
    \A i \in DOMAIN actors : \A a \in Item : \A b \in Item :
        compare_item_values(actors[i], a, b)
           = Reverse(compare_item_values(actors[i], b, a))

\* a tick in FoundTradePartner has just compared an offered item without
\* value with a wanted item, and found it Less
C13_Witness ==
    /\ ev.op = "tick" /\ ev.branch = "start_bidding"
    /\ get_best_goal(actors[ev.actor], ev.item1) = None
    /\ compare_item_values(actors[ev.actor], ev.item1, ev.item2) = "Less"
    /\ compare_item_values(actors[ev.actor], ev.item2, ev.item1) = "Greater"

(***************************************************************************)
(* C14: an actor that enters Bidding with an inventory of length n leaves  *)
(* Bidding after at most n of its own ticks, none of which fails, and it   *)
(* leaves only by a tick of its own that ends in agreement or in ladder    *)
(* exhaustion.                                                             *)
(***************************************************************************)
\* the actor at position i leaves Bidding in this step
LeavesBidding(i) ==
    actors[i].state.tag = "Bidding" /\ actors'[i].state.tag # "Bidding"

BiddingTicksSucceed ==
    \A i \in DOMAIN actors :
        (ev'.op = "tick" /\ ev'.actor = i /\ actors[i].state.tag = "Bidding")
           => failed' = None

LeavesByOutcome ==
    \A i \in DOMAIN actors :
        LeavesBidding(i)
           => /\ ev'.op = "tick" /\ ev'.actor = i
              /\ ev'.branch \in {"accepted", "exhausted"}

C14_NegotiationEnds ==
    [][/\ BiddingTicksSucceed
       /\ LeavesByOutcome
       /\ \A i \in DOMAIN actors :
             actors'[i].state.tag = "Bidding" => bidlog'[i].ticks < bidlog'[i].n]_vars

(***************************************************************************)
(* C15: a tick of an actor in BidRecipiant does not fail and leaves that   *)
(* actor's bargaining state, inventory, goal hierarchy and the units of    *)
(* its goals unchanged, and changes nothing in any other actor.            *)
(***************************************************************************)
SameUnits(self, self2) ==
    /\ DOMAIN self2.goal_registry = DOMAIN self.goal_registry
    /\ \A g \in DOMAIN self.goal_registry :
          self2.goal_registry[g].units = self.goal_registry[g].units

C15_BidRecipiantWaits ==
    [][\A i \in DOMAIN actors :
         (ev'.op = "tick" /\ ev'.actor = i /\ actors[i].state.tag = "BidRecipiant")
            => /\ failed' = None
               /\ actors'[i].state = actors[i].state
               /\ actors'[i].inventory = actors[i].inventory
               /\ actors'[i].goal_hierarchy = actors[i].goal_hierarchy
               /\ SameUnits(actors[i], actors'[i])
               /\ \A p \in DOMAIN actors \ {i} : actors'[p] = actors[p]]_vars

\* an actor with items and an expiring timer has just ticked in BidRecipiant
C15_Witness ==
    /\ ev.op = "tick" /\ ev.branch = "waiting" /\ ev.order # <<>>
    /\ actors[ev.actor].state.tag = "BidRecipiant"
    /\ actors[ev.actor].inventory # <<>>

(***************************************************************************)
(* C16: when an actor in WillingToTrade(k) ticks, for any k >= -1, the     *)
(* actor it marks BidRecipiant and records in FoundTradePartner is the     *)
(* first actor at a position greater than k that is not the actor itself,  *)
(* is not Bidding or BidRecipiant, and holds an item that satisfies the    *)
(* selected goal.                                                          *)
(***************************************************************************)
\* the positions the search may choose from
Candidates(as, i, goal, k) ==
    {p \in DOMAIN as \ {i} :
        /\ p > k
        /\ ~Occupied(as[p].state)
        /\ Len(has_item_of(as[p], as[i].satisfactions[goal])) > 0}

Min(S) == CHOOSE x \in S : \A y \in S : x <= y

C16_PartnerSelection ==
    [][\A i \in DOMAIN actors :
         (/\ ev'.op = "tick" /\ ev'.actor = i
          /\ actors[i].state.tag = "WillingToTrade"
          /\ ev'.goal \in DOMAIN actors[i].satisfactions
          /\ Candidates(actors, i, ev'.goal, actors[i].state.idx) # {})
            => LET first == Min(Candidates(actors, i, ev'.goal, actors[i].state.idx))
               IN /\ failed' = None
                  /\ actors'[i].state = FoundTradePartner(first)
                  /\ actors'[first].state.tag = "BidRecipiant"]_vars

(***************************************************************************)
(* C17: an initiator that abandoned partner p and is in WillingToTrade(p)  *)
(* does not select p, nor any actor at a position up to p, in its next     *)
(* partner search.                                                         *)
(***************************************************************************)
C17_NoRetry ==
    [][\A i \in DOMAIN actors :
         (/\ ev'.op = "tick" /\ ev'.actor = i
          /\ actors[i].state.tag = "WillingToTrade"
          /\ actors[i].state.idx >= 0
          /\ ev'.partner # NoIdx)
            => ev'.partner > actors[i].state.idx]_vars

\* the tick of the actor at position i is a Bidding round: it meets the actor
\* in Bidding with a partner and a goal it can look up
BiddingRound(i) ==
    /\ ev'.op = "tick" /\ ev'.actor = i
    /\ actors[i].state.tag = "Bidding"
    /\ actors[i].state.idx \in DOMAIN actors \ {i}
    /\ ev'.goal \in DOMAIN actors[i].satisfactions

\* the partner's matching set in that round
MatchingSet(i) ==
    has_item_of(actors[actors[i].state.idx], actors[i].satisfactions[ev'.goal])

\* the elements of a matching set beyond inventory position j
Beyond(m, j) == SelectSeq(m, LAMBDA x : x[1] > j)

\* one of the two ladders is exhausted
Exhausted(i) ==
    actors[i].state.i1 <= 0 \/ Beyond(MatchingSet(i), actors[i].state.i2) = <<>>

(***************************************************************************)
(* C18: a Bidding round that is not exhausted does not fail and considers  *)
(* the first element of the partner's matching set beyond the position     *)
(* considered in the round before, wherever in the inventory it is; if the *)
(* bid is rejected the initiator stays Bidding with its own index lowered  *)
(* by one and the partner's index set to the position just considered.     *)
(***************************************************************************)
C18_Escalation ==
    [][\A i \in DOMAIN actors :
         (BiddingRound(i) /\ ~Exhausted(i))
            => LET st == actors[i].state
                   next == Beyond(MatchingSet(i), st.i2)[1]
               IN /\ failed' = None
                  /\ ev'.branch \in {"accepted", "rejected"}
                  /\ ev'.item2 = next[2]
                  /\ ev'.branch = "rejected"
                        => actors'[i].state = Bidding(st.idx, st.i1 - 1, next[1])]_vars

(***************************************************************************)
(* C19: when an initiator ticks in Bidding(p, i, j) and i <= 0 or the      *)
(* partner has no matching item beyond position j, the tick does not fail, *)
(* the initiator becomes WillingToTrade(p), p becomes SearchingForGoal and *)
(* neither inventory changes.                                              *)
(***************************************************************************)
C19_LadderExhaustion ==
    [][\A i \in DOMAIN actors :
         (BiddingRound(i) /\ Exhausted(i))
            => LET p == actors[i].state.idx
               IN /\ failed' = None
                  /\ actors'[i].state = WillingToTrade(p)
                  /\ actors'[p].state = SearchingForGoal
                  /\ actors'[i].inventory = actors[i].inventory
                  /\ actors'[p].inventory = actors[p].inventory]_vars

\* a negotiation has just ended because the partner had no further matching
\* item, the initiator having items left to offer
C19_Witness ==
    /\ ev.op = "tick" /\ ev.branch = "exhausted"
    /\ actors[ev.actor].state = WillingToTrade(ev.partner)
    /\ actors[ev.partner].state = SearchingForGoal
    /\ ev.count > 0

(***************************************************************************)
(* C20: a trade is executed in a Bidding tick only if, by the initiator's  *)
(* own compare_item_values, the item it receives is not less valuable than *)
(* the item it gives up.                                                   *)
(***************************************************************************)
C20_ProposerAcceptance ==
    [][\A i \in DOMAIN actors :
         (TickOf(i) /\ ev'.branch = "accepted")
            => compare_item_values(timer_step(actors[i], ev'.order),
                                   ev'.item2, ev'.item1) # "Less"]_vars

\* a bid has just been rejected by the initiator alone: the partner valued
\* the offered item at least as much as its own
C20_Witness ==
    /\ ev.op = "tick" /\ ev.branch = "rejected"
    /\ compare_item_values(actors[ev.actor], ev.item1, ev.item2) = "Greater"
    /\ compare_item_values(actors[ev.partner], ev.item1, ev.item2) # "Less"

(***************************************************************************)
(* C21: as claimed: a trade is executed in a Bidding tick only if, by the  *)
(* partner's own compare_item_values, the item the partner receives is not *)
(* more valuable than the item the partner gives up.                       *)
(***************************************************************************)
C21_PartnerNotOverpaid ==
    [][\A i \in DOMAIN actors :
         (TickOf(i) /\ ev'.branch = "accepted")
            => compare_item_values(actors[ev'.partner], ev'.item1, ev'.item2)
                  # "Greater"]_vars

(***************************************************************************)
(* C21, amended: a trade is executed in a Bidding tick only if, by the     *)
(* partner's own compare_item_values, the item the partner receives is not *)
(* less valuable than the item the partner gives up.                       *)
(***************************************************************************)
C21_PartnerAcceptance ==
    [][\A i \in DOMAIN actors :
         (TickOf(i) /\ ev'.branch = "accepted")
            => compare_item_values(actors[ev'.partner], ev'.item1, ev'.item2)
                  # "Less"]_vars

\* a bid has just been rejected by the partner alone: the initiator valued
\* the wanted item at least as much as the offered one
C21_Witness ==
    /\ ev.op = "tick" /\ ev.branch = "rejected"
    /\ compare_item_values(actors[ev.partner], ev.item1, ev.item2) = "Less"
    /\ compare_item_values(actors[ev.actor], ev.item1, ev.item2) # "Greater"

\* the tick of the actor at position i meets it in FoundTradePartner
FoundRound(i) ==
    /\ ev'.op = "tick" /\ ev'.actor = i
    /\ actors[i].state.tag = "FoundTradePartner"

\* the items of the first tentative offer of that tick: the initiator's last
\* item and the partner's first matching item, None where there is none
OfferedItem(i) ==
    LET inv == actors[i].inventory
    IN IF inv = <<>> THEN None ELSE inv[Len(inv)]

RequestedItem(i) ==
    LET p == actors[i].state.idx
        m == IF p \in DOMAIN actors /\ ev'.goal \in DOMAIN actors[i].satisfactions
             THEN has_item_of(actors[p], actors[i].satisfactions[ev'.goal])
             ELSE <<>>
    IN IF m = <<>> THEN None ELSE m[1][2]

\* the initiator strictly values the requested item more than the offered one
StrictlyPrefers(i) ==
    /\ OfferedItem(i) # None /\ RequestedItem(i) # None
    /\ compare_item_values(timer_step(actors[i], ev'.order),
                           RequestedItem(i), OfferedItem(i)) = "Greater"

(***************************************************************************)
(* C22: when an initiator ticks in FoundTradePartner(p), the tick does not *)
(* fail; it enters Bidding with p exactly when it strictly values the      *)
(* item it would request more than the item it would offer; otherwise it   *)
(* becomes WillingToTrade(p) and p becomes SearchingForGoal; in both cases *)
(* no inventory changes.                                                   *)
(***************************************************************************)
C22_FoundTradePartnerOutcome ==
    [][\A i \in DOMAIN actors :
         FoundRound(i)
            => LET p == actors[i].state.idx
               IN /\ failed' = None
                  /\ IF StrictlyPrefers(i)
                     THEN actors'[i].state.tag = "Bidding" /\ actors'[i].state.idx = p
                     ELSE /\ actors'[i].state = WillingToTrade(p)
                          /\ actors'[p].state = SearchingForGoal
                  /\ \A q \in DOMAIN actors :
                        actors'[q].inventory = actors[q].inventory]_vars

\* an initiator has just abandoned a partner whose item it valued exactly as
\* much as its own
C22_Witness ==
    /\ ev.op = "tick" /\ ev.branch = "abandon"
    /\ compare_item_values(actors[ev.actor], ev.item2, ev.item1) = "Equal"
    /\ actors[ev.actor].state = WillingToTrade(ev.partner)
    /\ actors[ev.partner].state = SearchingForGoal

\* the tick of the actor at position i made the first tentative offer to the
\* partner at position p, both inventories being sorted when it did
FirstOffer(i, p) ==
    /\ FoundRound(i) /\ failed' = None
    /\ ev'.branch \in {"abandon", "start_bidding"}
    /\ p = actors[i].state.idx
    /\ Sorted(timer_step(actors[i], ev'.order))
    /\ Sorted(actors[p])

\* x is a least valuable item of the sequence of items under self's valuation
LeastValuable(self, x, items) ==
    \A k \in 1..Len(items) : compare_item_values(self, x, items[k]) # "Greater"

\* the items of a matching set
ItemsOf(m) == [k \in 1..Len(m) |-> m[k][2]]

OffersLeast(i) ==
    LET self == timer_step(actors[i], ev'.order)
    IN LeastValuable(self, ev'.item1, self.inventory)

AsksLeast(i, p) ==
    LeastValuable(actors[p], ev'.item2,
                  ItemsOf(has_item_of(actors[p], actors[i].satisfactions[ev'.goal])))

(***************************************************************************)
(* C23: in the first tentative offer of FoundTradePartner, both            *)
(* inventories being sorted, the item the initiator offers is a least      *)
(* valuable item of its own inventory under its own compare_item_values,   *)
(* and the item it asks for is a least valuable item, under the partner's  *)
(* compare_item_values, among the partner's items that satisfy the         *)
(* initiator's goal.                                                       *)
(***************************************************************************)
C23_FirstOffer ==
    [][\A i \in DOMAIN actors : \A p \in DOMAIN actors :
         FirstOffer(i, p) => OffersLeast(i) /\ AsksLeast(i, p)]_vars

\* the tick of the actor at position i meets it in SearchingForGoal with a
\* selected goal it can look up
SearchRound(i) ==
    /\ ev'.op = "tick" /\ ev'.actor = i
    /\ actors[i].state.tag = "SearchingForGoal"
    /\ ev'.goal \in DOMAIN actors[i].satisfactions

\* the inventory items that satisfy the selected goal, in inventory order
Satisfying(self, goal) == ItemsOf(has_item_of(self, self.satisfactions[goal]))

\* some of them has the selected goal as its best goal
HasExact(self, goal) ==
    \E k \in 1..Len(Satisfying(self, goal)) :
        get_best_goal(self, Satisfying(self, goal)[k]) = goal

\* the tick used item x for the selected goal
Used(i, x) ==
    LET self == timer_step(actors[i], ev'.order)
    IN /\ failed' = None /\ ev'.branch = "use" /\ ev'.item1 = x
       /\ \A y \in Item :
             Count(actors'[i].inventory, y)
                = Count(self.inventory, y) - (IF y = x THEN 1 ELSE 0)

UsesExact(i) ==
    LET self == timer_step(actors[i], ev'.order)
    IN \E x \in Item : get_best_goal(self, x) = ev'.goal /\ Used(i, x)

UsesLeast(i) ==
    LET self == timer_step(actors[i], ev'.order)
    IN \E x \in Item :
          LeastValuable(self, x, Satisfying(self, ev'.goal)) /\ Used(i, x)

(***************************************************************************)
(* C24: in a SearchingForGoal tick with selected goal G, if some inventory *)
(* item that satisfies G has G as its best goal, an item with best goal G  *)
(* is the one used; otherwise, among the inventory items that satisfy G,   *)
(* the item used is one the actor considers least valuable under           *)
(* compare_item_values, the inventory being sorted.                        *)
(***************************************************************************)
C24_ItemChoice ==
    [][\A i \in DOMAIN actors :
         LET self == timer_step(actors[i], ev'.order)
         IN SearchRound(i)
               => /\ HasExact(self, ev'.goal) => UsesExact(i)
                  /\ (/\ ~HasExact(self, ev'.goal)
                      /\ Satisfying(self, ev'.goal) # <<>>
                      /\ Sorted(self)) => UsesLeast(i)]_vars

\* the tick of the actor at position i meets it in SearchingForGoal with a
\* selected goal that no item of its inventory satisfies
NeedsItem(i) ==
    /\ ev'.op = "tick" /\ ev'.actor = i
    /\ actors[i].state.tag = "SearchingForGoal"
    /\ ev'.goal # None
    /\ \/ ev'.goal \notin DOMAIN actors[i].satisfactions
       \/ has_item_of(actors[i], actors[i].satisfactions[ev'.goal]) = <<>>

(***************************************************************************)
(* C25: when an actor in SearchingForGoal ticks with an active goal that   *)
(* no item of its inventory satisfies, the tick does not fail, the actor   *)
(* becomes WillingToTrade if its inventory is not empty and stays          *)
(* SearchingForGoal if it is empty, and its inventory, its goal hierarchy, *)
(* the units of its goals and every other actor are unchanged.             *)
(***************************************************************************)
C25_NeedItem ==
    [][\A i \in DOMAIN actors :
         NeedsItem(i)
            => /\ failed' = None
               /\ IF actors[i].inventory = <<>>
                  THEN actors'[i].state = SearchingForGoal
                  ELSE actors'[i].state.tag = "WillingToTrade"
               /\ actors'[i].inventory = actors[i].inventory
               /\ actors'[i].goal_hierarchy = actors[i].goal_hierarchy
               /\ SameUnits(actors[i], actors'[i])
               /\ \A p \in DOMAIN actors \ {i} : actors'[p] = actors[p]]_vars

\* an actor that holds items, none for its goal, has just become
\* WillingToTrade next to another actor
C25_Witness ==
    /\ ev.op = "tick" /\ ev.branch = "need_item"
    /\ actors[ev.actor].state = WillingToTrade(-1)
    /\ actors[ev.actor].inventory # <<>>
    /\ DOMAIN actors # {ev.actor}

(***************************************************************************)
(* C26: in every state reached from Actor::new by ticks (and add_item),    *)
(* for every item I the set of goals in the preference heap of I is        *)
(* exactly the set of active goals whose satisfaction entry contains I,    *)
(* and the set of goals in current_goals equals the key set of the goal    *)
(* hierarchy and the key set of the registry.                              *)
(***************************************************************************)
C26_PreferenceListContents ==
    \A i \in DOMAIN actors :
        LET self == actors[i]
        IN /\ \A item \in Item :
                 HeapGoals(MapGet(self.preference_list, item, <<>>)) = GoalsFor(self, item)
           /\ HeapGoals(self.current_goals) = DOMAIN self.goal_hierarchy
           /\ HeapGoals(self.current_goals) = DOMAIN self.goal_registry

\* a tick has just retired a recurring goal from every heap, and the heap of
\* an item still holds another goal
C26_Witness ==
    /\ ev.op = "tick" /\ ev.branch = "use"
    /\ ev.goal \in DOMAIN retired[ev.actor]
    /\ GoalGone(actors[ev.actor], ev.goal)
    /\ retired[ev.actor][ev.goal].time_required > 0
    /\ \E item \in DOMAIN actors[ev.actor].preference_list :
          actors[ev.actor].preference_list[item] # <<>>

(***************************************************************************)
(* C27: when every actor is ticked in every round, an actor that is        *)
(* BidRecipiant eventually is not BidRecipiant any more (executions that   *)
(* end in a panic are not held against the claim).                         *)
(***************************************************************************)
\* the actor at position i is BidRecipiant
IsRecipient(i) == actors[i].state.tag = "BidRecipiant"

C27_RecipientReleased ==
    \A i \in 0..2 :
        IsRecipient(i) ~> (failed # None \/ ~IsRecipient(i))

(***************************************************************************)
(* C28: each successful use of an item raises the units of the goal it is  *)
(* used for by exactly 1 and no other step changes the units of a goal;    *)
(* a goal leaves the registry only in the step in which its units reach    *)
(* units_required, so every goal in the registry (all of them start below  *)
(* units_required) has units < units_required.                             *)
(***************************************************************************)
\* this step is a tick of the actor at position p that uses an item for goal g
UsesFor(p, g) ==
    ev'.op = "tick" /\ ev'.branch = "use" /\ ev'.actor = p /\ ev'.goal = g

UnitsStep ==
    \A p \in DOMAIN actors :
        /\ DOMAIN actors'[p].goal_registry \subseteq DOMAIN actors[p].goal_registry
        /\ \A g \in DOMAIN actors[p].goal_registry :
              LET gd == actors[p].goal_registry[g]
              IN IF g \in DOMAIN actors'[p].goal_registry
                 THEN /\ actors'[p].goal_registry[g].units =
                            IF UsesFor(p, g) THEN gd.units + 1 ELSE gd.units
                      /\ actors'[p].goal_registry[g].units_required = gd.units_required
                 ELSE UsesFor(p, g) /\ gd.units + 1 = gd.units_required

UnitsBelowRequired ==
    \A p \in DOMAIN actors :
        \A g \in DOMAIN actors[p].goal_registry :
            actors[p].goal_registry[g].units < actors[p].goal_registry[g].units_required

C28_GoalProgress == []UnitsBelowRequired /\ [][UnitsStep]_vars

\* a use has raised the units of a goal that stays in the registry, after
\* an earlier use had completed and retired another goal of the actor
C28_Witness ==
    /\ ev.op = "tick" /\ ev.branch = "use"
    /\ ev.goal \in DOMAIN actors[ev.actor].goal_registry
    /\ actors[ev.actor].goal_registry[ev.goal].units >= 1
    /\ DOMAIN retired[ev.actor] # {}

(***************************************************************************)
(* C29: an actor in FoundTradePartner(p) or Bidding(p, _, _) is not at     *)
(* position p itself, and the actor at position p is BidRecipiant naming   *)
(* it as the initiator; the unreachable!() branches of tick are never      *)
(* reached and the borrow of the partner never conflicts with the actor.   *)
(***************************************************************************)
\* the actor at position i conducts a negotiation
IsInitiator(i) == actors[i].state.tag \in {"FoundTradePartner", "Bidding"}

\* the actor at position p is BidRecipiant and names the actor at position i
RecipientOf(p, i) ==
    /\ p \in DOMAIN actors
    /\ actors[p].state.tag = "BidRecipiant"
    /\ actors[p].state.idx = actors[i].name

C29_InitiatorPairing ==
    /\ \A i \in DOMAIN actors :
          IsInitiator(i) =>
              actors[i].state.idx # i /\ RecipientOf(actors[i].state.idx, i)
    /\ failed \notin {"tick: unreachable!()", "tick: BorrowMutError (partner is self)"}

(***************************************************************************)
(* C30: an actor that is BidRecipiant naming an initiator is the partner   *)
(* of that initiator: the actor of that name is in FoundTradePartner or    *)
(* Bidding with the position of the recipient as its partner.              *)
(***************************************************************************)
\* the actor at position a conducts a negotiation with the one at position b
InitiatorOf(a, b) == IsInitiator(a) /\ actors[a].state.idx = b

C30_RecipientPairing ==
    \A b \in DOMAIN actors :
        IsRecipient(b) =>
            \E a \in DOMAIN actors :
                actors[a].name = actors[b].state.idx /\ InitiatorOf(a, b)

(***************************************************************************)
(* C31: every active goal occurs exactly once in current_goals and exactly *)
(* once in the heap of each item that satisfies it, also after the         *)
(* recurrence timer of a goal that is still active has expired.            *)
(***************************************************************************)
C31_NoDuplicateEntries ==
    \A i \in DOMAIN actors :
        LET self == actors[i]
        IN \A g \in ActiveGoals(self) :
              /\ HeapCount(self.current_goals, g) = 1
              /\ \A item \in Item :
                    g \in GoalsFor(self, item) =>
                        HeapCount(MapGet(self.preference_list, item, <<>>), g) = 1

(***************************************************************************)
(* C32: a tick of an actor that is in FoundTradePartner or Bidding never   *)
(* fails in an unwrap or an index access: the partner holds an item that   *)
(* satisfies the goal the initiator has selected in that tick, and the     *)
(* offer index of Bidding lies within the initiator's inventory.           *)
(***************************************************************************)
\* the failures of the unwraps and index accesses of the two arms
NegotiationFailures ==
    {"tick: index out of bounds (other_actors)",
     "tick: unwrap on None (satisfactions)",
     "tick: unwrap on None (inventory.last)",
     "tick: unwrap on None (actors_items.first)",
     "tick: unwrap on None (actors_items.last)",
     "tick: index out of bounds (inventory)",
     "tick: unwrap on None (position)"}

C32_NegotiationNeverFails ==
    [][\A i \in DOMAIN actors :
         (IsInitiator(i) /\ ev'.op = "tick" /\ ev'.actor = i)
            => failed' \notin NegotiationFailures]_vars

(***************************************************************************)
(* C33: a tick of an actor whose selected goal has no entry in             *)
(* satisfactions (as Rest in the configuration of main) completes without  *)
(* failure and uses no item: the goal counts as one no item satisfies.     *)
(***************************************************************************)
\* this step is a tick of the actor at position i that selects a goal
\* without an entry in satisfactions
SelectsUnseeded(i) ==
    /\ ev'.op = "tick" /\ ev'.actor = i
    /\ ev'.goal # None
    /\ ev'.goal \notin DOMAIN actors[i].satisfactions

C33_UnseededGoal ==
    [][\A i \in DOMAIN actors :
         SelectsUnseeded(i) =>
            /\ failed' = None
            /\ ev'.branch # "use"
            /\ actors'[i].inventory = actors[i].inventory]_vars

====
